---------------------------- MODULE Spec2Model ----------------------------
(***************************************************************************)
(* Model of MicroplasticTransportModel (src/model.py): construction of the *)
(* model from a preprocessed dataset, and run_forecast with its seeding,   *)
(* RK4 advection, diffusion, boundary enforcement, deposition and capping. *)
(*                                                                         *)
(* Units.  Positions are whole degrees.  Velocities are stored in degrees  *)
(* per hour and the diffusivity in degrees^2 per hour, so the conversion   *)
(* factors 3600 s/h and 111000 m/degree of the source are absorbed in the  *)
(* units of the inputs.  Concentrations are exact integers; the inputs are *)
(* multiples of 600 so that conc / n_per_cell and the linear interpolation *)
(* of np.percentile are exact.  Floating-point rounding is not modelled.   *)
(***************************************************************************)
EXTENDS Integers, Sequences, FiniteSets, TLC

VARIABLES
    pc,               \* "new", "ready", "stepping", "done", "error"
    err,              \* the exception that ended the program, or "none"
    data,             \* the arrays of the preprocessed file; <<>> once extracted
    lats, lons,       \* self.lats, self.lons
    mp_conc, u, v,    \* self.mp_conc, self.u, self.v
    args,             \* the arguments of the running run_forecast call
    positions,        \* particle positions, <<lat, lon>> each
    weights,          \* particle weights
    step,             \* number of completed loop iterations
    timestep_grids, timestep_hours,
    predicted_conc,   \* the returned final concentration array
    cap_value,        \* the cap reported by _cap_outliers
    seeded,           \* history: positions and weights as returned by seeding
    pre_boundary,     \* history: positions handed to the last _apply_boundaries
    trace,            \* history: the stages executed, in order
    uncapped          \* history: the snapshots and final array before capping

vars == <<pc, err, data, lats, lons, mp_conc, u, v, args, positions, weights,
          step, timestep_grids, timestep_hours, predicted_conc, cap_value,
          seeded, pre_boundary, trace, uncapped>>

-----------------------------------------------------------------------------
(* Bounds of the model *)

MaxSteps == 2
MaxInterval == 2
MaxDt == 2
MaxPerCell == 2

-----------------------------------------------------------------------------
(* Generic helpers for arrays *)

Abs(x) == IF x < 0 THEN -x ELSE x

Min2(a, b) == IF a < b THEN a ELSE b

Max2(a, b) == IF a > b THEN a ELSE b

Last(s) == s[Len(s)]

RECURSIVE SumSeq(_)
SumSeq(s) == IF s = <<>> THEN 0 ELSE Head(s) + SumSeq(Tail(s))

RECURSIVE Flatten(_)
Flatten(m) == IF m = <<>> THEN <<>> ELSE Head(m) \o Flatten(Tail(m))

\* numpy shape of a 2-D array held as a sequence of rows
Shape(m) == <<Len(m), Len(m[1])>>

\* ndarray.T
Transpose(m) == [j \in 1..Len(m[1]) |-> [i \in 1..Len(m) |-> m[i][j]]]

\* ndarray.sum()
ArraySum(m) == SumSeq(Flatten(m))

\* np.zeros_like
ZerosLike(m) == [i \in 1..Len(m) |-> [j \in 1..Len(m[i]) |-> 0]]

\* np.clip(x, lo, hi) == minimum(maximum(x, lo), hi)
Clip(x, lo, hi) == Min2(Max2(x, lo), hi)

ClipGrid(m, lo, hi) == [i \in 1..Len(m) |-> [j \in 1..Len(m[i]) |-> Clip(m[i][j], lo, hi)]]

\* np.mod for a positive modulus: the result has the sign of the divisor
Mod(x, m) == x % m

\* np.searchsorted(a, x) (side='left'), 0-based: the number of elements < x
SearchSorted(a, x) == Cardinality({n \in 1..Len(a) : a[n] < x})

\* a[a > 0] of a flattened array
RECURSIVE Positive(_)
Positive(s) ==
    IF s = <<>> THEN <<>>
    ELSE IF Head(s) > 0 THEN <<Head(s)>> \o Positive(Tail(s))
    ELSE Positive(Tail(s))

RECURSIVE Insert(_, _)
Insert(x, s) ==
    IF s = <<>> THEN <<x>>
    ELSE IF x <= Head(s) THEN <<x>> \o s
    ELSE <<Head(s)>> \o Insert(x, Tail(s))

RECURSIVE Sorted(_)
Sorted(s) == IF s = <<>> THEN <<>> ELSE Insert(Head(s), Sorted(Tail(s)))

\* np.percentile(a, q), linear interpolation between the closest ranks
Percentile(a, q) ==
    LET s == Sorted(a)
        t == q * (Len(s) - 1)
        lo == t \div 100
        r == t % 100
    IN  IF r = 0 THEN s[lo + 1]
        ELSE s[lo + 1] + (r * (s[lo + 2] - s[lo + 1])) \div 100

\* floor of the square root
ISqrt(n) == CHOOSE r \in 0..n : r * r <= n /\ (r + 1) * (r + 1) > n

-----------------------------------------------------------------------------
(* The dataset read by the constructor *)

\* a raw cell of the dataset: a number or NaN
Num(x) == [isnan |-> FALSE, val |-> x]

NaN == [isnan |-> TRUE, val |-> 0]

Raw(m) == [i \in 1..Len(m) |-> [j \in 1..Len(m[i]) |-> Num(m[i][j])]]

\* np.nan_to_num(a, nan=0.0)
NanToNum(m) ==
    [i \in 1..Len(m) |-> [j \in 1..Len(m[i]) |->
        IF m[i][j].isnan THEN 0 ELSE m[i][j].val]]

\* a uniform field of the given shape
Uniform(rows, cols, x) == [i \in 1..rows |-> [j \in 1..cols |-> x]]


Reshape(flat, rows, cols) ==
    [i \in 1..rows |-> [j \in 1..cols |-> flat[(i - 1) * cols + j]]]

\* the coordinate axes of the input files: a 2 x 3 grid next to the north
\* pole in the [-180,180) convention, a 3 x 2 grid next to the south pole
\* in the [0,360) convention
Axes ==
    { [lats |-> <<86, 89>>, lons |-> <<-179, -178, -177>>],
      [lats |-> <<-89, -88, -87>>, lons |-> <<354, 357>>] }

\* concentration fields, row-major
FlatConcs ==
    { <<Num(0), Num(0), Num(0), Num(0), Num(0), Num(600)>>,
      <<NaN, Num(-600), Num(0), Num(0), Num(1200), Num(600)>>,
      <<Num(0), Num(-600), Num(0), NaN, Num(0), Num(0)>> }

\* uniform current fields <<u, v>>, degrees per hour
Currents == { <<0, 0>>, <<6, -6>> }

\* how the arrays of the file are laid out against (len(lat), len(lon))
Layouts == { "aligned", "transposed", "mp_other", "u_other", "v_other" }

OtherField(x) == <<<<Num(x), Num(x)>>>>

Dataset(a, flat, cur, layout) ==
    LET r == Len(a.lats)
        c == Len(a.lons)
        m == Reshape(flat, r, c)
        uu == Raw(Uniform(r, c, cur[1]))
        vv == Raw(Uniform(r, c, cur[2]))
    IN  [ lat |-> a.lats,
          lon |-> a.lons,
          mp_concentration |->
              IF layout = "transposed" THEN Transpose(m)
              ELSE IF layout = "mp_other" THEN <<<<Num(600), Num(1200)>>>>
              ELSE m,
          u_current |->
              IF layout = "transposed" THEN Transpose(uu)
              ELSE IF layout = "u_other" THEN OtherField(cur[1])
              ELSE uu,
          v_current |->
              IF layout = "v_other" THEN OtherField(cur[2]) ELSE vv ]

Datasets ==
    { Dataset(a, flat, cur, layout) :
        a \in Axes, flat \in FlatConcs, cur \in Currents, layout \in Layouts }

NoArgs == [particles_per_cell |-> 0, dt_hours |-> 0, n_steps |-> 0, K_h |-> 0,
           cap_percentile |-> [on |-> FALSE, p |-> 0], save_interval |-> 0]

Init ==
    /\ pc = "new"
    /\ err = "none"
    /\ data \in Datasets
    /\ lats = <<>>
    /\ lons = <<>>
    /\ mp_conc = <<>>
    /\ u = <<>>
    /\ v = <<>>
    /\ args = NoArgs
    /\ positions = <<>>
    /\ weights = <<>>
    /\ step = 0
    /\ timestep_grids = <<>>
    /\ timestep_hours = <<>>
    /\ predicted_conc = <<>>
    /\ cap_value = 0
    /\ seeded = [positions |-> <<>>, weights |-> <<>>]
    /\ pre_boundary = <<>>
    /\ trace = <<>>
    /\ uncapped = [grids |-> <<>>, final |-> <<>>]

-----------------------------------------------------------------------------
(* __init__ and _align_array_shapes *)

\* one field of _align_array_shapes: transposed whenever the shape differs
AlignArrayShape(arr, expected_shape) ==
    IF Shape(arr) # expected_shape THEN Transpose(arr) ELSE arr

\* the shape check of RegularGridInterpolator((lats, lons), values)
InterpolatorAccepts(values, nlat, nlon) == Shape(values) = <<nlat, nlon>>

Construct ==
    /\ pc = "new"
    /\ LET expected_shape == <<Len(data.lat), Len(data.lon)>>
           m == AlignArrayShape(NanToNum(data.mp_concentration), expected_shape)
           uu == AlignArrayShape(NanToNum(data.u_current), expected_shape)
           vv == AlignArrayShape(NanToNum(data.v_current), expected_shape)
           bad_field == \/ ~InterpolatorAccepts(uu, Len(data.lat), Len(data.lon))
                        \/ ~InterpolatorAccepts(vv, Len(data.lat), Len(data.lon))
           \* line 44: mp_conc[mp_conc > 0].min() of an empty selection
           no_positive == Positive(Flatten(m)) = <<>>
       IN  /\ lats' = data.lat
           /\ lons' = data.lon
           /\ mp_conc' = m
           /\ u' = uu
           /\ v' = vv
           /\ pc' = IF bad_field \/ no_positive THEN "error" ELSE "ready"
           /\ err' = IF bad_field THEN "ValueError: RegularGridInterpolator shape"
                     ELSE IF no_positive THEN "ValueError: min of empty array"
                     ELSE "none"
    /\ data' = <<>>
    /\ UNCHANGED <<args, positions, weights, step, timestep_grids, timestep_hours,
                   predicted_conc, cap_value, seeded, pre_boundary, trace, uncapped>>

-----------------------------------------------------------------------------
(* The random source.  np.random is one global stream; a call that asks for *)
(* n draws takes the next n values.  The stream is the cyclic repetition of *)
(* the possible values, entered at a position chosen by the seed.           *)

\* the whole degrees x with low <= x < high, for the interval
\* [centre - d/2, centre + d/2) where d4 = 4 * d
UniformValues(centre, d4) ==
    { x \in (centre - d4)..(centre + d4) :
        8 * centre - d4 <= 8 * x /\ 8 * x < 8 * centre + d4 }

\* the n-th draw (from 0) of np.random.uniform(low, high) under a seed
UniformDraw(centre, d4, seed, n) ==
    LET vals == UniformValues(centre, d4)
        lo == CHOOSE x \in vals : \A y \in vals : x <= y
    IN  lo + ((seed + n) % Cardinality(vals))

\* standard normal draws, in units of the standard deviation
NormalValues == <<-1, 1>>

\* the n-th draw (from 0) of np.random.normal(0, std) under a seed
NormalDraw(std, seed, n) == std * NormalValues[((seed + n) % Len(NormalValues)) + 1]

\* the positions at which a call may enter the stream
UniformSeeds == 0..2

NormalSeeds == 0..(Len(NormalValues) - 1)

-----------------------------------------------------------------------------
(* _initialize_particles *)

\* 4 * (axis[1] - axis[0]), or 4 * 0.25 for an axis of one point
Spacing4(axis) == IF Len(axis) > 1 THEN 4 * (axis[2] - axis[1]) ELSE 1

\* the cells with conc > 0 in the order of the two loops, 0-based <<i, j>>
RECURSIVE PositiveCells(_, _, _, _)
PositiveCells(conc, nlat, nlon, n) ==
    IF n >= nlat * nlon THEN <<>>
    ELSE LET i == n \div nlon
             j == n % nlon
         IN  (IF conc[i + 1][j + 1] <= 0 THEN <<>> ELSE << <<i, j>> >>)
                 \o PositiveCells(conc, nlat, nlon, n + 1)

\* mp_conc[i, j] raises IndexError for some cell of the loops
SeedingIndexError(conc, nlat, nlon) ==
    Len(conc) < nlat \/ Len(conc[1]) < nlon

\* mutant of InitializeParticles: every particle carries the whole cell
\* concentration instead of conc / n_per_cell
InitializeParticlesUndivided(n_per_cell, seed) ==
    LET cells == PositiveCells(mp_conc, Len(lats), Len(lons), 0)
        count == Len(cells) * n_per_cell
        cell(q) == cells[((q - 1) \div n_per_cell) + 1]
    IN  [ positions |->
              [q \in 1..count |-> << lats[cell(q)[1] + 1], lons[cell(q)[2] + 1] >>],
          weights |->
              [q \in 1..count |-> mp_conc[cell(q)[1] + 1][cell(q)[2] + 1]] ]

InitializeParticles(n_per_cell, seed) ==
    LET dlat4 == Spacing4(lats)
        dlon4 == Spacing4(lons)
        cells == PositiveCells(mp_conc, Len(lats), Len(lons), 0)
        count == Len(cells) * n_per_cell
        cell(q) == cells[((q - 1) \div n_per_cell) + 1]
        \* per cell: n_per_cell latitude draws, then n_per_cell longitude draws
        drawn(q) == ((q - 1) \div n_per_cell) * 2 * n_per_cell + ((q - 1) % n_per_cell)
    IN  [ positions |->
              [q \in 1..count |->
                  << UniformDraw(lats[cell(q)[1] + 1], dlat4, seed, drawn(q)),
                     UniformDraw(lons[cell(q)[2] + 1], dlon4, seed,
                                 drawn(q) + n_per_cell) >>],
          weights |->
              [q \in 1..count |->
                  mp_conc[cell(q)[1] + 1][cell(q)[2] + 1] \div n_per_cell] ]

-----------------------------------------------------------------------------
(* _velocity_at and _advect_rk4 *)

\* value of 1 / cos(radians(90)) in double precision is 1.6e16; a large
\* finite factor stands for it
PoleSec == 1000000

\* floor(1 / cos(radians(a))) for 0 <= a < 90 whole degrees
SecBelowPole(a) ==
    IF a <= 60 THEN 1 ELSE IF a <= 70 THEN 2 ELSE IF a <= 75 THEN 3
    ELSE IF a <= 78 THEN 4 ELSE IF a <= 80 THEN 5 ELSE IF a = 81 THEN 6
    ELSE IF a = 82 THEN 7 ELSE IF a = 83 THEN 8 ELSE IF a = 84 THEN 9
    ELSE IF a = 85 THEN 11 ELSE IF a = 86 THEN 14 ELSE IF a = 87 THEN 19
    ELSE IF a = 88 THEN 28 ELSE 57

\* 1 / np.cos(np.radians(lat)), rounded towards zero; negative past the pole
SecLat(lat) ==
    LET a == Mod(Abs(lat), 360)
        b == IF a > 180 THEN 360 - a ELSE a
    IN  IF b = 90 THEN PoleSec
        ELSE IF b < 90 THEN SecBelowPole(b)
        ELSE -SecBelowPole(180 - b)

\* the grid uses [0, 360) when its least longitude is >= 0, else [-180, 180)
LonsMin == CHOOSE x \in {lons[n] : n \in 1..Len(lons)} : \A n \in 1..Len(lons) : x <= lons[n]

\* longitude brought into the convention of the grid
WrapLon(lon) ==
    IF LonsMin >= 0 THEN Mod(lon, 360) ELSE Mod(lon + 180, 360) - 180

\* RegularGridInterpolator(bounds_error=False, fill_value=0) of a uniform
\* field: the field's value inside the axes' envelope, 0 outside
Interp(field, lat, lon) ==
    IF /\ lats[1] <= lat /\ lat <= lats[Len(lats)]
       /\ lons[1] <= lon /\ lon <= lons[Len(lons)]
    THEN field[1][1] ELSE 0

\* <<dlat_dt, dlon_dt>> at one position
VelocityAt(p) ==
    LET lon == WrapLon(p[2])
        u_ms == Interp(u, p[1], lon)
        v_ms == Interp(v, p[1], lon)
    IN  << v_ms, u_ms * SecLat(p[1]) >>

AdvectRK4(pos, dt) ==
    [q \in 1..Len(pos) |->
        LET p == pos[q]
            k1 == << VelocityAt(p)[1] * dt, VelocityAt(p)[2] * dt >>
            p2 == << p[1] + k1[1] \div 2, p[2] + k1[2] \div 2 >>
            k2 == << VelocityAt(p2)[1] * dt, VelocityAt(p2)[2] * dt >>
            p3 == << p[1] + k2[1] \div 2, p[2] + k2[2] \div 2 >>
            k3 == << VelocityAt(p3)[1] * dt, VelocityAt(p3)[2] * dt >>
            p4 == << p[1] + k3[1], p[2] + k3[2] >>
            k4 == << VelocityAt(p4)[1] * dt, VelocityAt(p4)[2] * dt >>
        IN  << p[1] + (k1[1] + 2 * k2[1] + 2 * k3[1] + k4[1]) \div 6,
               p[2] + (k1[2] + 2 * k2[2] + 2 * k3[2] + k4[2]) \div 6 >>]

-----------------------------------------------------------------------------
(* _add_diffusion and _apply_boundaries *)

\* sqrt(2 * K_h * dt) in whole degrees
StdLat(dt, K_h) == ISqrt(2 * K_h * dt)

\* std_lat / cos(radians(lat))
StdLon(lat, dt, K_h) == StdLat(dt, K_h) * SecLat(lat)

\* np.random.normal raises ValueError for a negative scale
DiffusionScaleError(pos, dt, K_h) ==
    \E q \in 1..Len(pos) : StdLon(pos[q][1], dt, K_h) < 0

AddDiffusion(pos, dt, K_h, seed) ==
    [q \in 1..Len(pos) |->
        << pos[q][1] + NormalDraw(StdLat(dt, K_h), seed, q - 1),
           pos[q][2] + NormalDraw(StdLon(pos[q][1], dt, K_h), seed, Len(pos) + q - 1) >>]

\* mutant of ApplyBoundaries: particles past a pole are removed
ApplyBoundariesDrop(pos) ==
    LET inside(p) == -90 <= p[1] /\ p[1] <= 90
        kept == SelectSeq(pos, inside)
    IN  [q \in 1..Len(kept) |-> << kept[q][1], WrapLon(kept[q][2]) >>]

\* mutant of ApplyBoundaries: longitude clamped to the convention's ends
ApplyBoundariesClamp(pos) ==
    [q \in 1..Len(pos) |->
        << Clip(pos[q][1], -90, 90),
           IF LonsMin >= 0 THEN Clip(pos[q][2], 0, 360) ELSE Clip(pos[q][2], -180, 180) >>]

ApplyBoundaries(pos) ==
    [q \in 1..Len(pos) |-> << Clip(pos[q][1], -90, 90), WrapLon(pos[q][2]) >>]

-----------------------------------------------------------------------------
(* _particles_to_grid and _cap_outliers *)

\* the 0-based cell <<i, j>> a position is deposited in
DepositCell(p) == << SearchSorted(lats, p[1]), SearchSorted(lons, p[2]) >>

\* the test 0 <= i < len(lats) and 0 <= j < len(lons)
InRange(c) ==
    /\ 0 <= c[1] /\ c[1] < Len(lats)
    /\ 0 <= c[2] /\ c[2] < Len(lons)

RECURSIVE WeightIn(_, _, _, _)
WeightIn(cells, w, i, j) ==
    IF cells = <<>> THEN 0
    ELSE (IF Head(cells) = <<i, j>> /\ InRange(Head(cells)) THEN Head(w) ELSE 0)
            + WeightIn(Tail(cells), Tail(w), i, j)

ParticlesToGrid(pos, w) ==
    LET cells == [q \in 1..Len(pos) |-> DepositCell(pos[q])]
    IN  [i \in 1..Len(mp_conc) |-> [j \in 1..Len(mp_conc[i]) |->
            WeightIn(cells, w, i - 1, j - 1)]]

\* [conc_capped, n_capped, cap_value]
CapOutliers(conc, percentile) ==
    LET nonzero == Positive(Flatten(conc))
    IN  IF Len(nonzero) = 0
        THEN [conc |-> conc, n_capped |-> 0, cap_value |-> 0]
        ELSE LET cap == Percentile(nonzero, percentile)
             IN  [ conc |-> ClipGrid(conc, 0, cap),
                   n_capped |-> Cardinality({n \in 1..Len(Flatten(conc)) : Flatten(conc)[n] > cap}),
                   cap_value |-> cap ]

-----------------------------------------------------------------------------
(* run_forecast *)

\* horizontal diffusivities, degrees^2 per hour
Diffusivities == {0, 2}

Percentiles == {50, 99}

CapOptions == {[on |-> FALSE, p |-> 0]} \cup {[on |-> TRUE, p |-> q] : q \in Percentiles}

\* lines 61-100: seeding and the time-0 snapshot
RunForecast(particles_per_cell, dt_hours, n_steps, K_h, cap_percentile, save_interval, seed) ==
    /\ pc = "ready"
    /\ args' = [particles_per_cell |-> particles_per_cell, dt_hours |-> dt_hours,
                n_steps |-> n_steps, K_h |-> K_h, cap_percentile |-> cap_percentile,
                save_interval |-> save_interval]
    /\ IF SeedingIndexError(mp_conc, Len(lats), Len(lons))
       THEN /\ pc' = "error"
            /\ err' = "IndexError: mp_conc[i, j]"
            /\ UNCHANGED <<positions, weights, step, timestep_grids, timestep_hours,
                           seeded, trace>>
       ELSE LET particles == InitializeParticles(particles_per_cell, seed)
            IN  /\ positions' = particles.positions
                /\ weights' = particles.weights
                /\ seeded' = particles
                /\ timestep_grids' = <<mp_conc>>
                /\ timestep_hours' = <<0>>
                /\ step' = 0
                /\ trace' = <<"seed">>
                /\ pc' = "stepping"
                /\ err' = "none"
    /\ UNCHANGED <<data, lats, lons, mp_conc, u, v, predicted_conc, cap_value,
                   pre_boundary, uncapped>>

\* mutant of SaveDue: the test is made on the loop index before it is advanced
SaveDueBeforeIncrement(step_index, save_interval) ==
    step_index % save_interval = 0

\* line 109: the iteration with loop index step_index saves a snapshot
SaveDue(step_index, save_interval) ==
    (step_index + 1) % save_interval = 0

\* lines 103-115: one iteration of the loop
Step(seed) ==
    /\ pc = "stepping"
    /\ step < args.n_steps
    /\ LET advected == AdvectRK4(positions, args.dt_hours)
           diffused == AddDiffusion(advected, args.dt_hours, args.K_h, seed)
           bounded == ApplyBoundaries(diffused)
       IN  IF Len(positions) = 0
           THEN \* positions[:, 0] of the 1-D empty array
                /\ pc' = "error"
                /\ err' = "IndexError: positions[:, 0]"
                /\ UNCHANGED <<positions, step, timestep_grids, timestep_hours,
                               pre_boundary, trace>>
           ELSE IF DiffusionScaleError(advected, args.dt_hours, args.K_h)
           THEN /\ pc' = "error"
                /\ err' = "ValueError: scale < 0"
                /\ positions' = advected
                /\ trace' = trace \o <<"advect">>
                /\ UNCHANGED <<step, timestep_grids, timestep_hours, pre_boundary>>
           ELSE /\ positions' = bounded
                /\ pre_boundary' = diffused
                /\ step' = step + 1
                /\ IF SaveDue(step, args.save_interval)
                   THEN /\ timestep_grids' =
                               Append(timestep_grids, ParticlesToGrid(bounded, weights))
                        /\ timestep_hours' =
                               Append(timestep_hours, (step + 1) * args.dt_hours)
                        /\ trace' = trace \o <<"advect", "diffuse", "boundaries", "deposit">>
                   ELSE /\ UNCHANGED <<timestep_grids, timestep_hours>>
                        /\ trace' = trace \o <<"advect", "diffuse", "boundaries">>
                /\ UNCHANGED <<pc, err>>
    /\ UNCHANGED <<data, lats, lons, mp_conc, u, v, args, weights, predicted_conc,
                   cap_value, seeded, uncapped>>

\* mutant of FinalHours: the final time tag is appended without the test of line 121
FinalHoursAlwaysAppend(hours, total) == Append(hours, total)

\* lines 121-125: the time tags after the final snapshot is recorded
FinalHours(hours, total) ==
    IF Last(hours) # total THEN Append(hours, total) ELSE hours

\* mutant of FinalGrids: the last recorded snapshot is left as it is when its
\* tag is already the total time
FinalGridsKeep(grids, hours, total, final) ==
    IF Last(hours) # total THEN Append(grids, final) ELSE grids

\* lines 121-125: the final snapshot appended, or written over the last one
FinalGrids(grids, hours, total, final) ==
    IF Last(hours) # total THEN Append(grids, final)
    ELSE [grids EXCEPT ![Len(grids)] = final]

\* mutant of CapTimesteps: the time-0 snapshot is left as it was
CapTimestepsSkipInitial(grids, cap) ==
    [n \in 1..Len(grids) |-> IF n = 1 THEN grids[n] ELSE ClipGrid(grids[n], 0, cap)]

\* line 142: the cap of the final snapshot applied to every saved snapshot
CapTimesteps(grids, cap) == [n \in 1..Len(grids) |-> ClipGrid(grids[n], 0, cap)]

\* lines 117-148: the final snapshot, the capping and the return
Finish ==
    /\ pc = "stepping"
    /\ step = args.n_steps
    /\ LET final == ParticlesToGrid(positions, weights)
           total == args.n_steps * args.dt_hours
           grids == FinalGrids(timestep_grids, timestep_hours, total, final)
           capped == CapOutliers(final, args.cap_percentile.p)
       IN  /\ timestep_hours' = FinalHours(timestep_hours, total)
           /\ uncapped' = [grids |-> grids, final |-> final]
           /\ IF args.cap_percentile.on
              THEN /\ predicted_conc' = capped.conc
                   /\ cap_value' = capped.cap_value
                   /\ timestep_grids' = CapTimesteps(grids, capped.cap_value)
              ELSE /\ predicted_conc' = final
                   /\ timestep_grids' = grids
                   /\ UNCHANGED cap_value
    /\ trace' = trace \o <<"final">>
    /\ pc' = "done"
    /\ UNCHANGED <<err, data, lats, lons, mp_conc, u, v, args, positions, weights,
                   step, seeded, pre_boundary>>

Next ==
    \/ Construct
    \/ \E particles_per_cell \in 1..MaxPerCell, dt_hours \in 1..MaxDt,
          n_steps \in 0..MaxSteps, K_h \in Diffusivities,
          cap_percentile \in CapOptions, save_interval \in 1..MaxInterval,
          seed \in UniformSeeds :
          RunForecast(particles_per_cell, dt_hours, n_steps, K_h, cap_percentile,
                      save_interval, seed)
    \/ \E seed \in NormalSeeds : Step(seed)
    \/ Finish

Spec == Init /\ [][Next]_vars

-----------------------------------------------------------------------------
(* Properties *)

\* a run_forecast call has seeded its particles and has not raised
Running == pc \in {"stepping", "done"}

AllCells(m) == {<<i, j>> : i \in 1..Len(m), j \in 1..Len(m[1])}

\* x lies in the footprint [axis[n] - d/2, axis[n] + d/2) of the axis point n
InFootprint(axis, n, x) ==
    /\ 8 * axis[n] - Spacing4(axis) <= 8 * x
    /\ 8 * x < 8 * axis[n] + Spacing4(axis)

\* the position lies in the footprint of some cell of the grid
InEnvelope(p) ==
    /\ \E i \in 1..Len(lats) : InFootprint(lats, i, p[1])
    /\ \E j \in 1..Len(lons) : InFootprint(lons, j, p[2])

\* the 0-based cell whose footprint contains a position of the envelope
ContainingCell(p) ==
    << (CHOOSE i \in 1..Len(lats) : InFootprint(lats, i, p[1])) - 1,
       (CHOOSE j \in 1..Len(lons) : InFootprint(lons, j, p[2])) - 1 >>

\* the longitude interval of the grid's convention
InConvention(lon) ==
    IF LonsMin >= 0 THEN 0 <= lon /\ lon < 360 ELSE -180 <= lon /\ lon < 180

RECURSIVE OutsideWeight(_, _)
OutsideWeight(pos, w) ==
    IF pos = <<>> THEN 0
    ELSE (IF InEnvelope(Head(pos)) THEN 0 ELSE Head(w)) + OutsideWeight(Tail(pos), Tail(w))

\* C1: when run_forecast returns, timestep_hours is strictly increasing, starts
\* at 0, ends at n_steps * dt_hours, and timestep_grids has the same length.
C1_TimeTags ==
    pc = "done" =>
        /\ Len(timestep_grids) = Len(timestep_hours)
        /\ timestep_hours[1] = 0
        /\ Last(timestep_hours) = args.n_steps * args.dt_hours
        /\ \A n \in 1..(Len(timestep_hours) - 1) : timestep_hours[n] < timestep_hours[n + 1]

\* a returned run whose last loop iteration saved a snapshot of its own
C1_Witness ==
    /\ pc = "done"
    /\ args.n_steps >= 2
    /\ args.n_steps % args.save_interval = 0
    /\ Len(timestep_hours) >= 3

\* C2: when every concentration cell of a well-shaped dataset is <= 0 (no
\* particle is seeded) the program raises nothing and run_forecast returns the original grid as the
\* single snapshot with time tag 0, without a stepping iteration.
C2_DegenerateSeeding ==
    (/\ pc # "new"
     /\ Shape(mp_conc) = <<Len(lats), Len(lons)>>
     /\ Shape(u) = <<Len(lats), Len(lons)>>
     /\ Shape(v) = <<Len(lats), Len(lons)>>
     /\ Positive(Flatten(mp_conc)) = <<>>) =>
        /\ pc # "error"
        /\ pc = "done" =>
              /\ timestep_grids = <<mp_conc>>
              /\ timestep_hours = <<0>>
              /\ step = 0

\* C3: depositing the particles just seeded, with no step in between, gives a
\* field whose total is the total M of the source grid (checked on the grids
\* without a negative cell, where the seeded weights add up to M).
C3_SeedDepositRoundTrip ==
    (/\ pc = "stepping"
     /\ step = 0
     /\ \A c \in AllCells(mp_conc) : mp_conc[c[1]][c[2]] >= 0) =>
        ArraySum(ParticlesToGrid(seeded.positions, seeded.weights)) = ArraySum(mp_conc)

\* C4: a particle inside the envelope is deposited in the cell whose footprint
\* contains its coordinates.
C4_ContainingCell ==
    Running =>
        \A q \in 1..Len(positions) :
            InEnvelope(positions[q]) =>
                /\ InRange(DepositCell(positions[q]))
                /\ DepositCell(positions[q]) = ContainingCell(positions[q])

\* C5: a particle is deposited exactly when it lies inside the envelope, so the
\* deposited total is the total weight less the weight of the outside particles.
C5_OutOfEnvelopeDrop ==
    Running =>
        /\ \A q \in 1..Len(positions) :
              InEnvelope(positions[q]) <=> InRange(DepositCell(positions[q]))
        /\ ArraySum(ParticlesToGrid(positions, weights))
              = SumSeq(weights) - OutsideWeight(positions, weights)

\* C6: with capping configured, the cap is the percentile of the positive cells
\* of the final snapshot, every cell of every returned grid lies in
\* [0, cap_value], and a cell that was already in [0, cap_value] is unchanged.
C6_UniformCapping ==
    (pc = "done" /\ args.cap_percentile.on) =>
        /\ cap_value =
              IF Positive(Flatten(uncapped.final)) = <<>> THEN 0
              ELSE Percentile(Positive(Flatten(uncapped.final)), args.cap_percentile.p)
        /\ \A n \in 1..Len(timestep_grids) : \A c \in AllCells(timestep_grids[n]) :
              LET x == timestep_grids[n][c[1]][c[2]]
                  x0 == uncapped.grids[n][c[1]][c[2]]
              IN  /\ 0 <= x /\ x <= cap_value
                  /\ (0 <= x0 /\ x0 <= cap_value) => x = x0
        /\ \A c \in AllCells(predicted_conc) :
              LET x == predicted_conc[c[1]][c[2]]
                  x0 == uncapped.final[c[1]][c[2]]
              IN  /\ 0 <= x /\ x <= cap_value
                  /\ (0 <= x0 /\ x0 <= cap_value) => x = x0

\* a capped run of three snapshots in which the cap cut a cell of the final
\* array and a cell of the time-0 snapshot
C6_Witness ==
    /\ pc = "done"
    /\ args.cap_percentile.on
    /\ cap_value > 0
    /\ Len(timestep_grids) >= 3
    /\ predicted_conc # uncapped.final
    /\ timestep_grids[1] # uncapped.grids[1]

\* C7: with capping configured and no positive cell in the final snapshot, the
\* returned array and every returned snapshot equal their uncapped values and
\* the cap is zero.
C7_EmptyCappingNoOp ==
    (pc = "done" /\ args.cap_percentile.on /\ Positive(Flatten(uncapped.final)) = <<>>) =>
        /\ predicted_conc = uncapped.final
        /\ timestep_grids = uncapped.grids
        /\ cap_value = 0

\* C8: after a successful construction the three fields have the shape
\* (n_lat, n_lon); a file with a field of any other shape never gets there.
C8_FieldShapes ==
    pc = "ready" =>
        /\ Shape(mp_conc) = <<Len(lats), Len(lons)>>
        /\ Shape(u) = <<Len(lats), Len(lons)>>
        /\ Shape(v) = <<Len(lats), Len(lons)>>

\* C9: after seeding, the number of particles and every weight stay as seeded.
C9_ParticleSetFixed ==
    Running =>
        /\ Len(positions) = Len(seeded.positions)
        /\ Len(weights) = Len(positions)
        /\ weights = seeded.weights

\* a returned, capped run of two steps with a saved snapshot between, whose
\* particles have moved
C9_Witness ==
    /\ pc = "done"
    /\ step >= 2
    /\ args.cap_percentile.on
    /\ Len(timestep_grids) >= 3
    /\ positions # seeded.positions
    /\ \E q \in 1..Len(pre_boundary) : pre_boundary[q][1] > 90

\* C10: after _apply_boundaries every latitude lies in [-90, 90] and every
\* longitude lies in the interval of the grid's convention and is congruent
\* modulo 360 to its value before.
C10_BoundaryPostcondition ==
    (Running /\ step >= 1) =>
        \A q \in 1..Len(positions) :
            /\ -90 <= positions[q][1] /\ positions[q][1] <= 90
            /\ InConvention(positions[q][2])
            /\ (positions[q][2] - pre_boundary[q][2]) % 360 = 0

\* a step that clamped a latitude past the pole and wrapped a longitude from
\* 180 or more to a negative value in a [-180, 180) grid
C10_Witness ==
    /\ Running
    /\ step >= 1
    /\ LonsMin < 0
    /\ \E q \in 1..Len(positions) :
          pre_boundary[q][1] > 90 /\ positions[q][1] = 90
    /\ \E q \in 1..Len(positions) :
          pre_boundary[q][2] >= 180 /\ positions[q][2] < 0

\* C11 as stated: for any source grid and any particles_per_cell >= 1 the sum
\* of the weights returned by _initialize_particles equals the sum of all
\* cells of the source grid.
C11_WeightsSumToGrid ==
    Running => SumSeq(seeded.weights) = ArraySum(mp_conc)

\* C11 amended: the sum of the weights returned by _initialize_particles
\* equals the sum of the strictly positive cells of the source grid, which is
\* the sum of all cells exactly when no cell is negative.
C11_WeightsSumToPositiveCells ==
    Running =>
        /\ SumSeq(seeded.weights) = SumSeq(Positive(Flatten(mp_conc)))
        /\ (\A c \in AllCells(mp_conc) : mp_conc[c[1]][c[2]] >= 0) =>
               SumSeq(seeded.weights) = ArraySum(mp_conc)

\* two particles per cell seeded from a grid that has positive cells and a
\* negative one, so that the weights sum to more than the grid
C11_Witness ==
    /\ Running
    /\ args.particles_per_cell = 2
    /\ Len(seeded.weights) >= 4
    /\ \E c \in AllCells(mp_conc) : mp_conc[c[1]][c[2]] < 0
    /\ SumSeq(seeded.weights) > ArraySum(mp_conc)

\* the largest factor 1 / cos(latitude) of a whole latitude short of a pole
GuardedSec == SecBelowPole(89)

\* C12: for a particle whose latitude was clamped to exactly 90 or -90 the
\* longitude rate of _velocity_at and the longitude standard deviation of
\* _add_diffusion of the next step are guarded: neither exceeds what the
\* factor 1 / cos(latitude) gives just short of the pole, so the longitude
\* change of that step is bounded.
C12_PolarGuard ==
    (pc = "stepping" /\ step >= 1 /\ step < args.n_steps) =>
        \A q \in 1..Len(positions) :
            (Abs(pre_boundary[q][1]) > 90 /\ Abs(positions[q][1]) = 90) =>
                LET p == positions[q]
                    lon == WrapLon(p[2])
                    advected == AdvectRK4(positions, args.dt_hours)[q]
                IN  /\ Abs(VelocityAt(p)[2]) <= Abs(Interp(u, p[1], lon)) * GuardedSec
                    /\ Abs(advected[1]) = 90 =>
                           StdLon(advected[1], args.dt_hours, args.K_h)
                               <= StdLat(args.dt_hours, args.K_h) * GuardedSec

\* C13: when run_forecast returns, the last grid of timestep_grids equals the
\* returned final array, which is the deposition of the positions after the
\* last step, both clipped to the same cap when capping is on, and no time
\* tag occurs twice.
C13_FinalSnapshot ==
    pc = "done" =>
        /\ Len(timestep_grids) = Len(timestep_hours)
        /\ Last(timestep_grids) = predicted_conc
        /\ uncapped.final = ParticlesToGrid(positions, weights)
        /\ Last(uncapped.grids) = uncapped.final
        /\ predicted_conc = IF args.cap_percentile.on
                             THEN ClipGrid(uncapped.final, 0, cap_value)
                             ELSE uncapped.final
        /\ Last(timestep_hours) = args.n_steps * args.dt_hours
        /\ \A a, b \in 1..Len(timestep_hours) :
               a # b => timestep_hours[a] # timestep_hours[b]

\* a capped run whose last step is a saving step, so that the final grid was
\* written over the snapshot of that step, and whose cap lowered a cell
C13_Witness ==
    /\ pc = "done"
    /\ args.n_steps = 2
    /\ args.save_interval = 2
    /\ args.cap_percentile.on
    /\ Len(timestep_grids) = 2
    /\ positions # seeded.positions
    /\ predicted_conc # uncapped.final
    /\ predicted_conc # mp_conc

\* C14: on every returned run, n_steps = 0 included, the snapshot tagged 0 is
\* the source concentration grid, clipped to [0, cap_value] when capping is
\* on, and not a grid made by depositing particles.  Stated for the runs
\* whose seeded particles deposit every positive cell back in full.
C14_InitialSnapshot ==
    (/\ pc = "done"
     /\ \A c \in AllCells(mp_conc) :
            mp_conc[c[1]][c[2]] > 0 =>
                ParticlesToGrid(seeded.positions, seeded.weights)[c[1]][c[2]]
                    = mp_conc[c[1]][c[2]])
    =>  /\ timestep_hours[1] = 0
        /\ timestep_grids[1] = IF args.cap_percentile.on
                               THEN ClipGrid(mp_conc, 0, cap_value)
                               ELSE mp_conc

\* the operations of the iterations s..n of a run, in order
RECURSIVE StepsTrace(_, _, _)
StepsTrace(s, n, save_interval) ==
    IF s > n
    THEN <<>>
    ELSE <<"advect", "diffuse", "boundaries">>
         \o (IF s % save_interval = 0 THEN <<"deposit">> ELSE <<>>)
         \o StepsTrace(s + 1, n, save_interval)

\* C15: a returned run made exactly n_steps iterations, each of them advection,
\* then diffusion, then the boundaries; a snapshot is deposited exactly after
\* each step s with s mod save_interval = 0, from the positions that step left
\* after the boundaries, with the tag s * dt_hours; and the series holds
\* 1 + floor(n_steps / save_interval) snapshots, and one more exactly when
\* n_steps is not a multiple of save_interval.
C15_SnapshotSchedule ==
    /\ (pc = "stepping" /\ step >= 1 /\ step % args.save_interval = 0) =>
           /\ Last(timestep_grids) = ParticlesToGrid(positions, weights)
           /\ Last(timestep_hours) = step * args.dt_hours
    /\ (pc = "stepping" /\ step % args.save_interval # 0) =>
           Last(timestep_hours) = (step - (step % args.save_interval)) * args.dt_hours
    /\ (Running /\ step >= 1) => positions = ApplyBoundaries(pre_boundary)
    /\ (Running /\ step = 1) =>
           \E seed \in NormalSeeds :
               pre_boundary = AddDiffusion(AdvectRK4(seeded.positions, args.dt_hours),
                                           args.dt_hours, args.K_h, seed)
    /\ pc = "done" =>
           /\ step = args.n_steps
           /\ trace = <<"seed">> \o StepsTrace(1, args.n_steps, args.save_interval)
                                \o <<"final">>
           /\ Len(timestep_grids) =
                  1 + (args.n_steps \div args.save_interval)
                    + (IF args.n_steps % args.save_interval # 0 THEN 1 ELSE 0)
           /\ \A m \in 1..(args.n_steps \div args.save_interval) :
                  timestep_hours[m + 1] = m * args.save_interval * args.dt_hours

\* a returned run of two steps that saved after each of them, with diffusion
\* and a step that the boundaries changed
C15_Witness ==
    /\ pc = "done"
    /\ args.n_steps = 2
    /\ args.save_interval = 1
    /\ args.dt_hours = 2
    /\ args.K_h > 0
    /\ timestep_hours = <<0, 2, 4>>
    /\ Len(timestep_grids) = 3
    /\ timestep_grids[2] # timestep_grids[3]
    /\ positions # pre_boundary

=============================================================================
